---- MODULE Spec2Model ----
(***************************************************************************)
(* A model of nrk-former-solver (Rust): the Board of src/Rust/src/board.rs *)
(* (group detection, gravity, moves, move enumeration) and the parallel    *)
(* branch-and-bound Solver of src/Rust/src/solver.rs.                      *)
(*                                                                         *)
(* Two specifications share the variables:                                 *)
(*   SpecBoard  one Board value driven through its public operations;      *)
(*   Spec       Solver::solve on a fresh Solver, one process per root-level*)
(*              rayon task, every interleaving of their shared accesses.   *)
(***************************************************************************)
EXTENDS Integers, Sequences, FiniteSets, TLC

\* ------------------------------------------------------------ constants
\* Board::WIDTH, Board::HEIGHT (board.rs:33-34)
WIDTH == 7
HEIGHT == 9
\* Solver::MAX_DEPTH (solver.rs:20) and the initial best_so_far (solver.rs:24)
MAX_DEPTH == 13
BEST_SENTINEL == 100

\* ------------------------------------------------------------ bounds
\* The initial boards have their non-empty cells in the columns
\* 0..RegionW-1, in the top row or the bottom RegionH rows, and at most
\* MaxCells of them.
RegionW == 2
RegionH == 2
MaxCells == 3
\* SpecBoard applies at most MaxMoves moves to one board.
MaxMoves == 2
\* Board::new is given strings of up to LenSlack characters fewer or more
\* than the board has cells, whose first PrefixLen characters vary.
LenSlack == 2
PrefixLen == 2
\* SpecDeep follows the search of a 14-cell board until the memo table holds
\* DeepTable entries.
DeepTable == 40

\* ------------------------------------------------------------ Point
\* enum Point, #[repr(u8)] (board.rs:4-12)
Point == {"Orange", "Pink", "Blue", "Green", "Empty"}

\* The u8 discriminant of a Point under #[repr(u8)].
Discriminant(p) ==
  CASE p = "Orange" -> 0
    [] p = "Pink"   -> 1
    [] p = "Blue"   -> 2
    [] p = "Green"  -> 3
    [] p = "Empty"  -> 4

\* struct Coordinate (board.rs:15-18)
Coord(x, y) == [x |-> x, y |-> y]

Cells == 0 .. (WIDTH * HEIGHT - 1)

\* Board::get_index (board.rs:78-80)
get_index(x, y) == (x * HEIGHT) + y

\* The cell a Coordinate addresses.
IndexOf(c) == get_index(c.x, c.y)

\* An index outside the Vec: data[i] panics.
OutOfBounds(i) == i \notin Cells

\* ------------------------------------------------------------ Board::new
\* char_to_point with unwrap_or(Point::Empty) (board.rs:41-53)
CharToPoint(c) ==
  CASE c = "o" -> "Orange"
    [] c = "p" -> "Pink"
    [] c = "g" -> "Green"
    [] c = "b" -> "Blue"
    [] OTHER   -> "Empty"

\* The number of bytes of the UTF-8 encoding of a character: the characters
\* written "U+00E9" and "U+20AC" stand for one character of two and of three
\* bytes, every other is ASCII.
len_utf8(c) ==
  CASE c = "U+00E9" -> 2
    [] c = "U+20AC" -> 3
    [] OTHER        -> 1

\* str::len (board.rs:37): the length of the string in bytes; s is the
\* sequence of its characters.
str_len(s) ==
  Len(s) + Cardinality({i \in DOMAIN s : len_utf8(s[i]) = 2})
         + 2 * Cardinality({i \in DOMAIN s : len_utf8(s[i]) = 3})

\* Board::new (board.rs:36-59): s is the sequence of the string's characters,
\* which s.chars() iterates (board.rs:52). The Vec is indexed from 0.
new(s) ==
  IF str_len(s) # HEIGHT * WIDTH
  THEN [ok |-> FALSE, err |-> "InvalidBoardStringLength"]
  ELSE [ok |-> TRUE,
        data |-> [i \in 0 .. (Len(s) - 1) |-> CharToPoint(s[i + 1])],
        moves |-> <<>>]

\* Board::is_solved (board.rs:91-93)
is_solved(data) == \A i \in DOMAIN data : data[i] = "Empty"

\* Board::get_memo_key (board.rs:82-89): the raw bytes of the Vec<Point>.
get_memo_key(data) == [i \in DOMAIN data |-> Discriminant(data[i])]

\* ------------------------------------------------------------ get_group
\* The coordinate that stands for a panic of the traversal (an index out of
\* the Vec's bounds): once in the group, the traversal has unwound.
PanicMark == [x |-> -1, y |-> -1]

\* neighbors with the lower bound test written y < HEIGHT: the cell below
\* the last row is taken for a neighbour.
neighbors_wrap(x, y) ==
  (IF x > 0 THEN <<Coord(x - 1, y)>> ELSE <<>>)
  \o (IF x < WIDTH - 1 THEN <<Coord(x + 1, y)>> ELSE <<>>)
  \o (IF y > 0 THEN <<Coord(x, y - 1)>> ELSE <<>>)
  \o (IF y < HEIGHT THEN <<Coord(x, y + 1)>> ELSE <<>>)

\* The neighbours recurse_neighbors pushes, in its order (board.rs:134-147).
neighbors(x, y) ==
  (IF x > 0 THEN <<Coord(x - 1, y)>> ELSE <<>>)
  \o (IF x < WIDTH - 1 THEN <<Coord(x + 1, y)>> ELSE <<>>)
  \o (IF y > 0 THEN <<Coord(x, y - 1)>> ELSE <<>>)
  \o (IF y < HEIGHT - 1 THEN <<Coord(x, y + 1)>> ELSE <<>>)

RECURSIVE recurse_neighbors(_, _, _, _, _)
\* One iteration of the for loop of recurse_neighbors (board.rs:149-160) on
\* the i-th neighbour of ns, if there is one.
visit_neighbor(data, group, color, ns, i) ==
  IF PanicMark \in group \/ i > Len(ns) THEN group
  ELSE LET n == ns[i]
       IN IF OutOfBounds(IndexOf(n)) THEN group \cup {PanicMark}
          ELSE IF data[IndexOf(n)] # color THEN group
          ELSE IF n \in group THEN group
          ELSE recurse_neighbors(data, group \cup {n}, color, n.x, n.y)

\* Board::recurse_neighbors (board.rs:126-161): the group after the call.
recurse_neighbors(data, group, color, x, y) ==
  LET ns == neighbors(x, y)
      g1 == visit_neighbor(data, group, color, ns, 1)
      g2 == visit_neighbor(data, g1, color, ns, 2)
      g3 == visit_neighbor(data, g2, color, ns, 3)
  IN visit_neighbor(data, g3, color, ns, 4)

\* Board::get_group (board.rs:113-124). The seed's own index is read first.
get_group(data, x, y) ==
  IF OutOfBounds(get_index(x, y)) THEN {PanicMark}
  ELSE recurse_neighbors(data, {Coord(x, y)}, data[get_index(x, y)], x, y)

\* ------------------------------------------------------------ gravity
RECURSIVE gravity_compact(_, _, _, _)
\* The first loop of apply_gravity over one column starting at column_start
\* (board.rs:170-177), i running from HEIGHT-1 down to 0; yields the data and
\* the final insert_at.
gravity_compact(data, column_start, i, insert_at) ==
  IF i < 0 THEN [data |-> data, insert_at |-> insert_at]
  ELSE IF data[column_start + i] = "Empty"
    THEN gravity_compact(data, column_start, i - 1, insert_at)
  ELSE gravity_compact(
         [data EXCEPT ![column_start + insert_at] = data[column_start + i]],
         column_start, i - 1, insert_at - 1)

\* gravity_column with the column slices taken WIDTH apart instead of HEIGHT.
gravity_column_stride(data, x) ==
  LET column_start == x * WIDTH
      r == gravity_compact(data, column_start, HEIGHT - 1, HEIGHT - 1)
  IN [i \in DOMAIN data |->
        IF i >= column_start /\ i <= column_start + r.insert_at
        THEN "Empty" ELSE r.data[i]]

\* One iteration of the outer loop of apply_gravity (board.rs:165-181): the
\* first loop and then the second, which empties 0..insert_at. Yields the
\* data with column x settled.
gravity_column(data, x) ==
  LET column_start == x * HEIGHT
      r == gravity_compact(data, column_start, HEIGHT - 1, HEIGHT - 1)
  IN [i \in DOMAIN data |->
        IF i >= column_start /\ i <= column_start + r.insert_at
        THEN "Empty" ELSE r.data[i]]

\* Board::apply_gravity (board.rs:163-183): every iteration of the outer
\* loop writes the slice of its own column only, so the result is
\* column x of gravity_column(data, x), for each x.
apply_gravity(data) ==
  LET settled == [x \in 0 .. (WIDTH - 1) |-> gravity_column(data, x)]
  IN [i \in DOMAIN data |-> settled[i \div HEIGHT][i]]

\* ------------------------------------------------------------ make_move
\* clear_group emptying the cell of one member of the group only.
clear_group_one(data, group) ==
  LET c == CHOOSE m \in group : \A n \in group : IndexOf(m) <= IndexOf(n)
  IN [data EXCEPT ![IndexOf(c)] = "Empty"]

\* The loop that empties the group's cells (board.rs:102-104).
clear_group(data, group) ==
  [i \in DOMAIN data |->
     IF \E c \in group : IndexOf(c) = i THEN "Empty" ELSE data[i]]

\* make_move that records the move before it tests the cell.
make_move_push_first(b, x, y) ==
  IF OutOfBounds(get_index(x, y))
  THEN [res |-> "Panic", data |-> b.data, moves |-> b.moves]
  ELSE IF b.data[get_index(x, y)] = "Empty"
  THEN [res |-> "InvalidMove", data |-> b.data,
        moves |-> Append(b.moves, Coord(x, y))]
  ELSE LET group == get_group(b.data, x, y)
       IN IF PanicMark \in group
          THEN [res |-> "Panic", data |-> b.data, moves |-> b.moves]
          ELSE [res |-> "Ok",
                data |-> apply_gravity(clear_group(b.data, group)),
                moves |-> Append(b.moves, Coord(x, y))]

\* make_move without the call of apply_gravity.
make_move_no_gravity(b, x, y) ==
  IF OutOfBounds(get_index(x, y))
  THEN [res |-> "Panic", data |-> b.data, moves |-> b.moves]
  ELSE IF b.data[get_index(x, y)] = "Empty"
  THEN [res |-> "InvalidMove", data |-> b.data, moves |-> b.moves]
  ELSE LET group == get_group(b.data, x, y)
       IN IF PanicMark \in group
          THEN [res |-> "Panic", data |-> b.data, moves |-> b.moves]
          ELSE [res |-> "Ok",
                data |-> clear_group(b.data, group),
                moves |-> Append(b.moves, Coord(x, y))]

\* make_move that records the coordinate with x and y exchanged.
make_move_swapped(b, x, y) ==
  IF OutOfBounds(get_index(x, y))
  THEN [res |-> "Panic", data |-> b.data, moves |-> b.moves]
  ELSE IF b.data[get_index(x, y)] = "Empty"
  THEN [res |-> "InvalidMove", data |-> b.data, moves |-> b.moves]
  ELSE LET group == get_group(b.data, x, y)
       IN IF PanicMark \in group
          THEN [res |-> "Panic", data |-> b.data, moves |-> b.moves]
          ELSE [res |-> "Ok",
                data |-> apply_gravity(clear_group(b.data, group)),
                moves |-> Append(b.moves, Coord(y, x))]

\* Board::make_move (board.rs:95-111) on the board b = [data, moves].
\* res is "Ok", "InvalidMove" (the Err) or "Panic" (an index out of bounds
\* before anything was written).
make_move(b, x, y) ==
  IF OutOfBounds(get_index(x, y))
  THEN [res |-> "Panic", data |-> b.data, moves |-> b.moves]
  ELSE IF b.data[get_index(x, y)] = "Empty"
  THEN [res |-> "InvalidMove", data |-> b.data, moves |-> b.moves]
  ELSE LET group == get_group(b.data, x, y)
       IN IF PanicMark \in group
          THEN [res |-> "Panic", data |-> b.data, moves |-> b.moves]
          ELSE [res |-> "Ok",
                data |-> apply_gravity(clear_group(b.data, group)),
                moves |-> Append(b.moves, Coord(x, y))]

\* ------------------------------------------------------------ moves
\* The coordinate the double loop of get_distinct_moves reaches k-th (from
\* 0): for x in 0..WIDTH, for y in 0..HEIGHT (board.rs:189-190).
ScanCoord(k) == Coord(k \div HEIGHT, k % HEIGHT)

\* The set visited when the loop reaches its k-th coordinate: the loop body
\* inserts the scanned coordinate itself, when its cell is not empty, and
\* nothing else (board.rs:191-199).
visited_before(data, k) ==
  {ScanCoord(j) : j \in {i \in 0 .. (k - 1) : data[IndexOf(ScanCoord(i))] # "Empty"}}

\* The iterations that push an entry: the cell is not empty and
\* visited.insert returns true (board.rs:191-203).
distinct_pushes(data) ==
  {k \in 0 .. (WIDTH * HEIGHT - 1) :
     /\ data[IndexOf(ScanCoord(k))] # "Empty"
     /\ ScanCoord(k) \notin visited_before(data, k)}

\* Board::get_distinct_moves (board.rs:185-208): the entries pushed, in the
\* order of the scan.
get_distinct_moves(data) ==
  LET pushes == distinct_pushes(data)
      nth(i) == CHOOSE k \in pushes : Cardinality({j \in pushes : j < k}) = i - 1
  IN [i \in 1 .. Cardinality(pushes) |->
        <<ScanCoord(nth(i)),
          Cardinality(get_group(data, ScanCoord(nth(i)).x, ScanCoord(nth(i)).y))>>]

\* Board::get_distinct_moves_after_move (board.rs:210-218)
get_distinct_moves_after_move(data, x, y) ==
  Len(get_distinct_moves(make_move([data |-> data, moves |-> <<>>], x, y).data))

\* The comparator of sorted_by (board.rs:232): a.2.cmp(&b.2).then(b.1.cmp(&a.1))
\* on triples <<coordinate, group size, groups after the move>>; TRUE when a
\* orders strictly before b.
prioritized_less(a, b) == a[3] < b[3] \/ (a[3] = b[3] /\ b[2] < a[2])

RECURSIVE stable_insert(_, _)
\* Insertion behind every element that does not order after e: the sort is
\* stable (Vec::sort_by).
stable_insert(sorted, e) ==
  IF sorted = <<>> THEN <<e>>
  ELSE IF prioritized_less(e, Head(sorted)) THEN <<e>> \o sorted
  ELSE <<Head(sorted)>> \o stable_insert(Tail(sorted), e)

RECURSIVE stable_sort(_, _)
stable_sort(todo, sorted) ==
  IF todo = <<>> THEN sorted
  ELSE stable_sort(Tail(todo), stable_insert(sorted, Head(todo)))

\* Board::get_prioritized_moves (board.rs:220-235)
get_prioritized_moves(data) ==
  LET dm == get_distinct_moves(data)
      scored == [i \in 1 .. Len(dm) |->
                   <<dm[i][1], dm[i][2],
                     get_distinct_moves_after_move(data, dm[i][1].x, dm[i][1].y)>>]
      sorted == stable_sort(scored, <<>>)
  IN [i \in 1 .. Len(sorted) |-> sorted[i][1]]

\* ------------------------------------------------------------ state
VARIABLES
  board,        \* SpecBoard: the Board under test; Spec: the board given to solve
  last,         \* SpecBoard: the last Board operation, its arguments and outcome
  main,         \* Spec: where the caller of Solver::solve is
  tasks,        \* Spec: the root-level tasks of par_iter, one per first move
  processed,    \* Solver.processed: memo key -> move count
  best_so_far,  \* Solver.best_so_far
  lock,         \* the RwLock around processed: its readers and its writer
  result        \* Spec: what solve returned

vars == <<board, last, main, tasks, processed, best_so_far, lock, result>>

boardVars == <<board, last>>
solverVars == <<main, tasks, processed, best_so_far, lock, result>>

\* Option<Vec<Coordinate>>
None == [some |-> FALSE, val |-> <<>>]
Some(v) == [some |-> TRUE, val |-> v]

\* Solver::new (solver.rs:22-27): the sentinel bound, an empty table, an
\* unlocked RwLock.
SolverNew ==
  /\ processed = {}
  /\ best_so_far = BEST_SENTINEL
  /\ lock = [readers |-> {}, writer |-> 0]

NoOp(b) ==
  [op |-> "new", x |-> 0, y |-> 0, res |-> "Ok", pre |-> b,
   group |-> {}, dm |-> <<>>]

\* ------------------------------------------------------------ inputs
\* The characters the input strings are made of: two colours and a
\* character outside the symbol table.
InputChars == {"o", "b", "_"}

RegionIdx ==
  {get_index(x, y) : x \in 0 .. (RegionW - 1),
                     y \in {0} \cup ((HEIGHT - RegionH) .. (HEIGHT - 1))}

\* 63-character strings that are blank outside the region and hold at most
\* MaxCells colours.
RegionStrings ==
  {[i \in 1 .. (WIDTH * HEIGHT) |-> IF (i - 1) \in RegionIdx THEN f[i - 1] ELSE "_"] :
     f \in {g \in [RegionIdx -> InputChars] :
              Cardinality({i \in RegionIdx : g[i] # "_"}) <= MaxCells}}

\* The cells the boards given to solve are coloured in: the top cell and
\* the bottom RegionH cells of column 0, and the bottom cell of the other
\* columns of the region, in index order.
SolverIdx ==
  [k \in 1 .. (RegionH + 1) |->
     get_index(0, IF k = 1 THEN 0 ELSE HEIGHT - RegionH + k - 2)]
    \o [k \in 1 .. (RegionW - 1) |-> get_index(k, HEIGHT - 1)]

SolverChars == {"o", "b", "g", "_"}

\* The boards given to solve: at most MaxCells colours, named in the order
\* of their first cell (the first colour is o, and g comes after a b), which
\* is one board of each class of boards equal up to renaming the colours.
SolverStrings ==
  {[i \in 1 .. (WIDTH * HEIGHT) |->
      IF \E k \in DOMAIN SolverIdx : SolverIdx[k] = i - 1
      THEN f[CHOOSE k \in DOMAIN SolverIdx : SolverIdx[k] = i - 1] ELSE "_"] :
     f \in {g \in [DOMAIN SolverIdx -> SolverChars] :
              LET cs == SelectSeq(g, LAMBDA c : c # "_")
              IN /\ Len(cs) <= MaxCells
                 /\ cs # <<>> => cs[1] = "o"
                 /\ \A k \in DOMAIN cs :
                      cs[k] = "g" => \E j \in 1 .. (k - 1) : cs[j] = "b"}}

\* The board of the unit test of get_group (board.rs:300-303), and a board
\* with column 0 of one colour and column 1 of a second.
TestStrings ==
  { <<"o", "p", "o", "o", "o", "o", "o", "o", "o">>
      \o <<"p", "p", "p", "p", "p", "p", "p", "p", "p">>
      \o <<"b", "b", "b", "b", "b", "b", "b", "p", "b">>
      \o <<"g", "g", "g", "g", "g", "g", "g", "p", "g">>
      \o <<"o", "o", "o", "o", "o", "o", "o", "o", "o">>
      \o <<"p", "p", "p", "p", "p", "p", "p", "p", "p">>
      \o <<"b", "b", "b", "b", "b", "b", "b", "b", "b">>,
    [i \in 1 .. (WIDTH * HEIGHT) |->
       IF i <= HEIGHT THEN "o" ELSE IF i <= 2 * HEIGHT THEN "b" ELSE "_"] }

\* The coordinates the operations are called with: those of the region, the
\* column and the row next to it, and the column WIDTH and the row HEIGHT,
\* which are beyond the grid.
MoveXs == (0 .. RegionW) \cup {WIDTH}
MoveYs == {0} \cup ((HEIGHT - RegionH - 1) .. HEIGHT)

\* The outcome of a Board operation depends on the board alone, not on the
\* operation before it: each operation is applied to the board as it was
\* constructed or as a successful move left it, which reaches every pair of
\* a board and an operation that any sequence of calls reaches.
Fresh == last.op = "new" \/ (last.op = "make_move" /\ last.res = "Ok")

\* ------------------------------------------------------------ SpecBoard
InitBoard ==
  /\ \E s \in RegionStrings \cup TestStrings :
       LET b == new(s) IN
         /\ b.ok
         /\ board = [data |-> b.data, moves |-> b.moves]
  /\ last = NoOp(board)
  /\ main = "unused"
  /\ tasks = <<>>
  /\ result = None
  /\ SolverNew

\* board.make_move(x, y)
MakeMove(x, y) ==
  /\ Fresh
  /\ Len(board.moves) < MaxMoves
  /\ LET r == make_move(board, x, y) IN
       /\ board' = [data |-> r.data, moves |-> r.moves]
       /\ last' = [op |-> "make_move", x |-> x, y |-> y, res |-> r.res,
                   pre |-> board, group |-> {}, dm |-> <<>>]
  /\ UNCHANGED solverVars

\* board.get_group(x, y), on a non-empty cell of the grid (its callers,
\* get_distinct_moves and make_move, call it on no other)
GetGroup(x, y) ==
  /\ Fresh
  /\ x < WIDTH /\ y < HEIGHT
  /\ board.data[get_index(x, y)] # "Empty"
  /\ last' = [op |-> "get_group", x |-> x, y |-> y, res |-> "Ok",
              pre |-> board, group |-> get_group(board.data, x, y), dm |-> <<>>]
  /\ UNCHANGED <<board, solverVars>>

\* board.get_distinct_moves()
GetDistinctMoves ==
  /\ Fresh
  /\ last' = [op |-> "get_distinct_moves", x |-> 0, y |-> 0, res |-> "Ok",
              pre |-> board, group |-> {},
              dm |-> get_distinct_moves(board.data)]
  /\ UNCHANGED <<board, solverVars>>

\* board.get_prioritized_moves() on a board of at most MaxCells cells; dm
\* holds the coordinates returned
GetPrioritizedMoves ==
  /\ Fresh
  /\ Cardinality({i \in DOMAIN board.data : board.data[i] # "Empty"}) <= MaxCells
  /\ last' = [op |-> "get_prioritized_moves", x |-> 0, y |-> 0, res |-> "Ok",
              pre |-> board, group |-> {},
              dm |-> get_prioritized_moves(board.data)]
  /\ UNCHANGED <<board, solverVars>>

NextBoard ==
  \/ \E x \in MoveXs, y \in MoveYs : MakeMove(x, y)
  \/ \E x \in MoveXs, y \in MoveYs : GetGroup(x, y)
  \/ GetDistinctMoves
  \/ GetPrioritizedMoves

SpecBoard == InitBoard /\ [][NextBoard]_vars

\* ------------------------------------------------------------ SpecNew
\* The strings given to Board::new: HEIGHT * WIDTH characters and up to
\* LenSlack fewer or more, the first PrefixLen of them (fewer when the string
\* is shorter) any of the characters of the symbol table, an ASCII character
\* outside it and two characters that are not ASCII, the rest blank.
NewChars == {"o", "p", "g", "b", "_", "U+00E9", "U+20AC"}

NewLens ==
  {n \in (HEIGHT * WIDTH - LenSlack) .. (HEIGHT * WIDTH + LenSlack) : n >= 0} \cup {0}

NewStrings ==
  UNION {{[i \in 1 .. n |-> IF i <= PrefixLen THEN f[i] ELSE "_"] :
            f \in [1 .. PrefixLen -> NewChars]} : n \in NewLens}

\* No Board: Board::new returned Err, or has not been called.
NoBoard == [data |-> <<>>, moves |-> <<>>, none |-> TRUE]

InitNew ==
  /\ board = NoBoard
  /\ last = [op |-> "none"]
  /\ main = "unused"
  /\ tasks = <<>>
  /\ result = None
  /\ SolverNew

\* Board::new(s)
New(s) ==
  /\ last.op = "none"
  /\ LET b == new(s) IN
       /\ board' = IF b.ok THEN [data |-> b.data, moves |-> b.moves] ELSE NoBoard
       /\ last' = [op |-> "new", input |-> s,
                   res |-> IF b.ok THEN "Ok" ELSE b.err]
  /\ UNCHANGED solverVars

NextNew == \E s \in NewStrings : New(s)

SpecNew == InitNew /\ [][NextNew]_vars

\* ------------------------------------------------------------ Solver
\* A frame of solve_recursive: its board, the prioritized moves the for loop
\* has yet to take, and local_best_moves (solver.rs:64-66).
Frame(data, moves) ==
  [data |-> data, moves |-> moves, pending |-> <<>>, best |-> None]

\* The body of the for loop up to the recursive call (solver.rs:69-72):
\* the clone with the move m made, as the frame of the call.
ChildFrame(f, m) ==
  LET r == make_move([data |-> f.data, moves |-> f.moves], m.x, m.y)
  IN Frame(r.data, r.moves)

\* The key of the memo table entry for a key: the entries hold one count
\* per key (HashMap<Box<[u8]>, usize>).
Lookup(table, key) == {e \in table : e.key = key}
Insert(table, key, count) ==
  (table \ Lookup(table, key)) \cup {[key |-> key, count |-> count]}

RECURSIVE Unwind(_, _)
\* The for loop of the frame f, the stack below it being rest, from its next
\* iteration on (solver.rs:68-89): the next child is called, or the loop is
\* over and the frame returns None (solver.rs:83-85) or goes on to
\* update_best_so_far (solver.rs:87).
Continue(rest, f) ==
  IF f.pending # <<>>
  THEN [stack |-> rest \o <<[f EXCEPT !.pending = Tail(f.pending)]>>
                       \o <<ChildFrame(f, Head(f.pending))>>,
        pc |-> "enter", ret |-> None]
  ELSE IF ~f.best.some
  THEN Unwind(rest \o <<f>>, None)
  ELSE [stack |-> rest \o <<f>>, pc |-> "ub_load", ret |-> None]

\* The top frame returns r: the task is over when it was the only frame;
\* otherwise the caller keeps r when it is the first or a shorter solution
\* (solver.rs:74-80) and its loop goes on.
Unwind(stack, r) ==
  IF Len(stack) = 1
  THEN [stack |-> <<>>, pc |-> "done", ret |-> r]
  ELSE LET f == stack[Len(stack) - 1]
           better == r.some /\ (~f.best.some \/ Len(r.val) < Len(f.best.val))
       IN Continue(SubSeq(stack, 1, Len(stack) - 2),
                   [f EXCEPT !.best = IF better THEN r ELSE f.best])

Top(t) == tasks[t].stack[Len(tasks[t].stack)]

\* The task t goes on as next says (its stack, pc and return value).
Goes(t, next) ==
  tasks' = [tasks EXCEPT ![t] = [pc |-> next.pc, stack |-> next.stack,
                                  ret |-> next.ret, cur |-> tasks[t].cur]]

At(t, pc) == main = "running" /\ tasks[t].pc = pc

\* Solver::solve up to the fork (solver.rs:29-38): one task per prioritized
\* move, each with its clone of the board and the move made.
Solve ==
  /\ main = "start"
  /\ LET all_moves == get_prioritized_moves(board.data)
         root == Frame(board.data, board.moves)
     IN tasks' = [i \in 1 .. Len(all_moves) |->
                    [pc |-> "enter", stack |-> <<ChildFrame(root, all_moves[i])>>,
                     ret |-> None, cur |-> 0]]
  /\ main' = "running"
  /\ UNCHANGED <<boardVars, processed, best_so_far, lock, result>>

\* solve_recursive with the depth test move_count > MAX_DEPTH.
Enter_depth_off_by_one(t) ==
  /\ At(t, "enter")
  /\ LET f == Top(t)
         move_count == Len(f.moves)
         reached_max_depth == move_count > MAX_DEPTH
         already_found_better == move_count >= best_so_far
     IN IF is_solved(f.data)
        THEN Goes(t, Unwind(tasks[t].stack, Some(f.moves)))
        ELSE IF reached_max_depth \/ already_found_better
        THEN Goes(t, Unwind(tasks[t].stack, None))
        ELSE Goes(t, [stack |-> tasks[t].stack, pc |-> "sp_read", ret |-> None])
  /\ UNCHANGED <<boardVars, main, processed, best_so_far, lock, result>>

\* solve_recursive from its entry to the call of should_process
\* (solver.rs:44-58), best_so_far being loaded once.
Enter(t) ==
  /\ At(t, "enter")
  /\ LET f == Top(t)
         move_count == Len(f.moves)
         reached_max_depth == move_count >= MAX_DEPTH
         already_found_better == move_count >= best_so_far
     IN IF is_solved(f.data)
        THEN Goes(t, Unwind(tasks[t].stack, Some(f.moves)))
        ELSE IF reached_max_depth \/ already_found_better
        THEN Goes(t, Unwind(tasks[t].stack, None))
        ELSE Goes(t, [stack |-> tasks[t].stack, pc |-> "sp_read", ret |-> None])
  /\ UNCHANGED <<boardVars, main, processed, best_so_far, lock, result>>

\* should_process: self.processed.read() (solver.rs:127)
ReadLock(t) ==
  /\ At(t, "sp_read")
  /\ lock.writer = 0
  /\ lock' = [lock EXCEPT !.readers = @ \cup {t}]
  /\ Goes(t, [stack |-> tasks[t].stack, pc |-> "sp_check", ret |-> None])
  /\ UNCHANGED <<boardVars, main, processed, best_so_far, result>>

\* should_process keeping the read guard when it goes on to the write lock.
ReadCheck_keeps_guard(t) ==
  /\ At(t, "sp_check")
  /\ LET f == Top(t)
         found == Lookup(processed, get_memo_key(f.data))
     IN IF \E e \in found : Len(f.moves) >= e.count
        THEN /\ Goes(t, Unwind(tasks[t].stack, None))
             /\ lock' = [lock EXCEPT !.readers = @ \ {t}]
        ELSE /\ Goes(t, [stack |-> tasks[t].stack, pc |-> "sp_write", ret |-> None])
             /\ UNCHANGED lock
  /\ UNCHANGED <<boardVars, main, processed, best_so_far, result>>

\* should_process under the read lock (solver.rs:128-136): false when the
\* table holds a count at or below move_count; the guard is dropped either
\* way.
ReadCheck(t) ==
  /\ At(t, "sp_check")
  /\ LET f == Top(t)
         found == Lookup(processed, get_memo_key(f.data))
     IN IF \E e \in found : Len(f.moves) >= e.count
        THEN Goes(t, Unwind(tasks[t].stack, None))
        ELSE Goes(t, [stack |-> tasks[t].stack, pc |-> "sp_write", ret |-> None])
  /\ lock' = [lock EXCEPT !.readers = @ \ {t}]
  /\ UNCHANGED <<boardVars, main, processed, best_so_far, result>>

\* should_process: self.processed.write() (solver.rs:139)
WriteLock(t) ==
  /\ At(t, "sp_write")
  /\ lock.writer = 0 /\ lock.readers = {}
  /\ lock' = [lock EXCEPT !.writer = t]
  /\ Goes(t, [stack |-> tasks[t].stack, pc |-> "sp_update", ret |-> None])
  /\ UNCHANGED <<boardVars, main, processed, best_so_far, result>>

\* should_process keeping the write guard when it returns true.
WriteCheck_keeps_guard(t) ==
  /\ At(t, "sp_update")
  /\ LET f == Top(t)
         key == get_memo_key(f.data)
         found == Lookup(processed, key)
         rest == SubSeq(tasks[t].stack, 1, Len(tasks[t].stack) - 1)
     IN IF \E e \in found : Len(f.moves) >= e.count
        THEN /\ Goes(t, Unwind(tasks[t].stack, None))
             /\ UNCHANGED processed
             /\ lock' = [lock EXCEPT !.writer = 0]
        ELSE /\ processed' = Insert(processed, key, Len(f.moves))
             /\ Goes(t, Continue(rest,
                        [f EXCEPT !.pending = get_prioritized_moves(f.data)]))
             /\ UNCHANGED lock
  /\ UNCHANGED <<boardVars, main, best_so_far, result>>

\* should_process under the write lock without the second test of the entry:
\* the count is installed whatever the table holds.
WriteCheck_no_recheck(t) ==
  /\ At(t, "sp_update")
  /\ LET f == Top(t)
         rest == SubSeq(tasks[t].stack, 1, Len(tasks[t].stack) - 1)
     IN /\ processed' = Insert(processed, get_memo_key(f.data), Len(f.moves))
        /\ Goes(t, Continue(rest,
                   [f EXCEPT !.pending = get_prioritized_moves(f.data)]))
  /\ lock' = [lock EXCEPT !.writer = 0]
  /\ UNCHANGED <<boardVars, main, best_so_far, result>>

\* should_process under the write lock (solver.rs:140-157): the entry is
\* tested again and the count installed; on true solve_recursive goes on to
\* its prioritized moves and the first iteration of its loop
\* (solver.rs:64-72).
WriteCheck(t) ==
  /\ At(t, "sp_update")
  /\ LET f == Top(t)
         key == get_memo_key(f.data)
         found == Lookup(processed, key)
         rest == SubSeq(tasks[t].stack, 1, Len(tasks[t].stack) - 1)
     IN IF \E e \in found : Len(f.moves) >= e.count
        THEN /\ Goes(t, Unwind(tasks[t].stack, None))
             /\ UNCHANGED processed
        ELSE /\ processed' = Insert(processed, key, Len(f.moves))
             /\ Goes(t, Continue(rest,
                        [f EXCEPT !.pending = get_prioritized_moves(f.data)]))
  /\ lock' = [lock EXCEPT !.writer = 0]
  /\ UNCHANGED <<boardVars, main, best_so_far, result>>

\* update_best_so_far: the load at the head of the loop (solver.rs:93-99);
\* on break solve_recursive returns local_best_moves (solver.rs:89).
UpdateLoad(t) ==
  /\ At(t, "ub_load")
  /\ LET f == Top(t)
         new_len == Len(f.best.val)
         current == best_so_far
     IN IF new_len >= current
        THEN Goes(t, Unwind(tasks[t].stack, f.best))
        ELSE tasks' = [tasks EXCEPT ![t].pc = "ub_cas", ![t].cur = current]
  /\ UNCHANGED <<boardVars, main, processed, best_so_far, lock, result>>

\* update_best_so_far storing new whatever the value now is.
UpdateCas_store(t) ==
  /\ At(t, "ub_cas")
  /\ best_so_far' = Len(Top(t).best.val)
  /\ Goes(t, Unwind(tasks[t].stack, Top(t).best))
  /\ UNCHANGED <<boardVars, main, processed, lock, result>>

\* update_best_so_far: compare_exchange(current, new) (solver.rs:101-121)
UpdateCas(t) ==
  /\ At(t, "ub_cas")
  /\ LET f == Top(t)
         new_len == Len(f.best.val)
     IN IF best_so_far = tasks[t].cur
        THEN /\ best_so_far' = new_len
             /\ Goes(t, Unwind(tasks[t].stack, f.best))
        ELSE /\ UNCHANGED best_so_far
             /\ Goes(t, [stack |-> tasks[t].stack, pc |-> "ub_load", ret |-> None])
  /\ UNCHANGED <<boardVars, main, processed, lock, result>>

\* The solutions the tasks returned (filter_map, solver.rs:39).
Returned == {tasks[t].ret.val : t \in {u \in DOMAIN tasks : tasks[u].ret.some}}

\* min_by_key returning any of the solutions.
min_by_key_any(solutions) ==
  IF solutions = {} THEN {None} ELSE {Some(v) : v \in solutions}

\* min_by_key(|solution| solution.len()) (solver.rs:40): a shortest of the
\* solutions, None when there is none.
min_by_key(solutions) ==
  IF solutions = {} THEN {None}
  ELSE {Some(v) : v \in {w \in solutions : \A u \in solutions : Len(w) <= Len(u)}}

\* Solver::solve from the join of the tasks to its return (solver.rs:39-40).
Join ==
  /\ main = "running"
  /\ \A t \in DOMAIN tasks : tasks[t].pc = "done"
  /\ result' \in min_by_key(Returned)
  /\ main' = "done"
  /\ UNCHANGED <<boardVars, tasks, processed, best_so_far, lock>>

Init ==
  /\ \E s \in SolverStrings :
       LET b == new(s) IN
         /\ b.ok
         /\ board = [data |-> b.data, moves |-> b.moves]
  /\ last = NoOp(board)
  /\ main = "start"
  /\ tasks = <<>>
  /\ result = None
  /\ SolverNew

Next ==
  \/ Solve
  \/ \E t \in DOMAIN tasks : Enter(t)
  \/ \E t \in DOMAIN tasks : ReadLock(t)
  \/ \E t \in DOMAIN tasks : ReadCheck(t)
  \/ \E t \in DOMAIN tasks : WriteLock(t)
  \/ \E t \in DOMAIN tasks : WriteCheck(t)
  \/ \E t \in DOMAIN tasks : UpdateLoad(t)
  \/ \E t \in DOMAIN tasks : UpdateCas(t)
  \/ Join

Spec == Init /\ [][Next]_vars

\* The task t can take a step: it is not waiting for the lock. read() waits
\* while a writer holds the lock, write() while anyone holds it.
TaskEnabled(t) ==
  \/ tasks[t].pc \in {"enter", "sp_check", "sp_update", "ub_load", "ub_cas"}
  \/ tasks[t].pc = "sp_read" /\ lock.writer = 0
  \/ tasks[t].pc = "sp_write" /\ lock.writer = 0 /\ lock.readers = {}

\* A step of Next is possible (ENABLED <<Next>>_vars, written out action by
\* action: Solve, the steps of the tasks, Join).
NextEnabled ==
  \/ main = "start"
  \/ main = "running" /\ \E t \in DOMAIN tasks : TaskEnabled(t)
  \/ main = "running" /\ \A t \in DOMAIN tasks : tasks[t].pc = "done"

\* The threads of the pool keep running: a step is taken as long as one is
\* possible. This is WF_vars(Next) with ENABLED <<Next>>_vars written as
\* NextEnabled, and a step of Next as a step that changes vars.
FairSpec ==
  /\ Init /\ [][Next]_vars
  /\ WF_vars(Join)
  /\ ([]<>~NextEnabled \/ []<><<TRUE>>_vars)

\* ------------------------------------------------------------ SpecAgain
\* The same Solver is given a second board: solve(&self, ..) leaves
\* processed and best_so_far as the first call left them (solver.rs:29-41).
\* The boards of the first call: those of SolverStrings that are settled in
\* column 0 (no cell in the top row).
AgainStrings == {s \in SolverStrings : s[get_index(0, 0) + 1] = "_"}

\* The character Board::new maps to a Point (board.rs:41-46).
PointToChar(p) ==
  CASE p = "Orange" -> "o"
    [] p = "Pink"   -> "p"
    [] p = "Green"  -> "g"
    [] p = "Blue"   -> "b"
    [] OTHER        -> "_"

\* The boards of the second call: the board of the first call, and, when
\* the first call returned moves, the board its first move leaves.
SecondStrings ==
  {[i \in 1 .. (WIDTH * HEIGHT) |-> PointToChar(board.data[i - 1])]}
    \cup (IF result.some /\ result.val # <<>>
          THEN {[i \in 1 .. (WIDTH * HEIGHT) |->
                   PointToChar(make_move(board, result.val[1].x,
                                         result.val[1].y).data[i - 1])]}
          ELSE {})

InitAgain ==
  /\ \E s \in AgainStrings :
       LET b == new(s) IN
         /\ b.ok
         /\ board = [data |-> b.data, moves |-> b.moves]
  /\ last = NoOp(board)
  /\ main = "start"
  /\ tasks = <<>>
  /\ result = None
  /\ SolverNew

\* The caller, after solve has returned, constructs a board and calls solve
\* on the same Solver; last keeps the board and the result of the first call.
SolveAgain ==
  /\ main = "done"
  /\ last.op = "new"
  /\ \E s \in SecondStrings :
       LET b == new(s) IN
         /\ b.ok
         /\ board' = [data |-> b.data, moves |-> b.moves]
  /\ last' = [op |-> "solve", x |-> 0, y |-> 0,
              res |-> result, pre |-> board, group |-> {}, dm |-> <<>>]
  /\ main' = "start"
  /\ tasks' = <<>>
  /\ result' = None
  /\ UNCHANGED <<processed, best_so_far, lock>>

NextAgain ==
  \/ Solve
  \/ \E t \in DOMAIN tasks : Enter(t)
  \/ \E t \in DOMAIN tasks : ReadLock(t)
  \/ \E t \in DOMAIN tasks : ReadCheck(t)
  \/ \E t \in DOMAIN tasks : WriteLock(t)
  \/ \E t \in DOMAIN tasks : WriteCheck(t)
  \/ \E t \in DOMAIN tasks : UpdateLoad(t)
  \/ \E t \in DOMAIN tasks : UpdateCas(t)
  \/ Join
  \/ SolveAgain

SpecAgain == InitAgain /\ [][NextAgain]_vars

\* ------------------------------------------------------------ SpecDeep
\* A board of 14 cells, no two neighbours of one colour: column 0 full, pink
\* and green in turn, and the five bottom cells of column 2 orange and blue
\* in turn. Its first nine prioritized moves take column 0 from the top, and
\* the search then is 13 moves deep with one cell left.
DeepString ==
  [i \in 1 .. (WIDTH * HEIGHT) |->
     IF i <= HEIGHT THEN (IF i % 2 = 1 THEN "p" ELSE "g")
     ELSE IF i > 2 * HEIGHT + 4 /\ i <= 3 * HEIGHT
          THEN (IF i % 2 = 1 THEN "o" ELSE "b")
     ELSE "_"]

InitDeep ==
  /\ LET b == new(DeepString) IN
       /\ b.ok
       /\ board = [data |-> b.data, moves |-> b.moves]
  /\ last = NoOp(board)
  /\ main = "start"
  /\ tasks = <<>>
  /\ result = None
  /\ SolverNew

\* A pool of one worker thread runs the root-level tasks one after the
\* other, in the order of the moves. The run is followed until the memo table
\* holds DeepTable entries, which is before the first task is over.
Runs(t) ==
  /\ Cardinality(processed) < DeepTable
  /\ \A u \in DOMAIN tasks : u < t => tasks[u].pc = "done"

NextDeep ==
  \/ Solve
  \/ \E t \in DOMAIN tasks : Runs(t) /\ Enter(t)
  \/ \E t \in DOMAIN tasks : Runs(t) /\ ReadLock(t)
  \/ \E t \in DOMAIN tasks : Runs(t) /\ ReadCheck(t)
  \/ \E t \in DOMAIN tasks : Runs(t) /\ WriteLock(t)
  \/ \E t \in DOMAIN tasks : Runs(t) /\ WriteCheck(t)
  \/ \E t \in DOMAIN tasks : Runs(t) /\ UpdateLoad(t)
  \/ \E t \in DOMAIN tasks : Runs(t) /\ UpdateCas(t)

SpecDeep == InitDeep /\ [][NextDeep]_vars

\* ------------------------------------------------------------ Board claims
InGrid(x, y) == x \in 0 .. (WIDTH - 1) /\ y \in 0 .. (HEIGHT - 1)

GridCoords == {Coord(x, y) : x \in 0 .. (WIDTH - 1), y \in 0 .. (HEIGHT - 1)}

NonEmptyCells(data) == {i \in DOMAIN data : data[i] # "Empty"}

\* No empty cell beneath a non-empty cell of the same column.
GravityInvariant(data) ==
  \A x \in 0 .. (WIDTH - 1) : \A y \in 0 .. (HEIGHT - 1) :
    data[get_index(x, y)] # "Empty" =>
      \A y2 \in (y + 1) .. (HEIGHT - 1) : data[get_index(x, y2)] # "Empty"

\* The colours of column x from top to bottom, leaving out the empty cells
\* and the cells whose index is in removed.
ColumnColours(data, x, removed) ==
  LET cells == [y \in 1 .. HEIGHT |-> get_index(x, y - 1)]
      Kept(i) == data[i] # "Empty" /\ i \notin removed
      kept == SelectSeq(cells, Kept)
  IN [k \in 1 .. Len(kept) |-> data[kept[k]]]

\* Horizontally or vertically adjacent cells of the grid.
Adjacent(c, d) ==
  \/ c.x = d.x /\ (c.y = d.y + 1 \/ d.y = c.y + 1)
  \/ c.y = d.y /\ (c.x = d.x + 1 \/ d.x = c.x + 1)

RECURSIVE Grow(_, _, _)
\* The least set of grid cells that holds S and every cell of the colour
\* adjacent to one of its members.
Grow(data, color, S) ==
  LET N == S \cup {c \in GridCoords :
                     /\ data[IndexOf(c)] = color
                     /\ \E m \in S : Adjacent(c, m)}
  IN IF N = S THEN S ELSE Grow(data, color, N)

\* The maximal 4-connected set of cells of one colour that holds (x, y).
Component(data, x, y) == Grow(data, data[get_index(x, y)], {Coord(x, y)})

LastMove == last.op = "make_move"
LastMoveOk == last.op = "make_move" /\ last.res = "Ok"
LastIdx == get_index(last.x, last.y)
\* The cells of the group the last move cleared.
LastGroupIdx == {IndexOf(c) : c \in get_group(last.pre.data, last.x, last.y)}

\* C4: make_move on a cell of the grid that is empty returns InvalidMove and
\* leaves the cells and the move history as they were.
C4_EmptyCellRejected ==
  (LastMove /\ InGrid(last.x, last.y) /\ last.pre.data[LastIdx] = "Empty")
    => (last.res = "InvalidMove" /\ board = last.pre)

\* An InvalidMove on an empty cell of a board that holds colours and has
\* a move behind it.
C4_Witness ==
  /\ LastMove /\ InGrid(last.x, last.y)
  /\ last.pre.data[LastIdx] = "Empty"
  /\ last.res = "InvalidMove"
  /\ NonEmptyCells(board.data) # {}
  /\ Len(board.moves) = 1

\* C5: make_move with a coordinate beyond the grid (x >= 7 or y >= 9) fails
\* with InvalidMove and changes neither the cells nor the move history.
C5_OutOfRangeRejected ==
  (LastMove /\ ~InGrid(last.x, last.y))
    => (last.res = "InvalidMove" /\ board = last.pre)

\* C6: after every successful make_move no column has an empty cell beneath
\* a non-empty one.
C6_GravityAfterMove == LastMoveOk => GravityInvariant(board.data)

\* A successful move on a board that was not settled, cells remaining.
C6_Witness ==
  /\ LastMoveOk
  /\ ~GravityInvariant(last.pre.data)
  /\ NonEmptyCells(board.data) # {}

\* C7: a successful make_move(x, y) on a cell of the grid removes the cells
\* of get_group(x, y) and no others (per column and colour, the cells left
\* are those that were there less the group's), the number of non-empty
\* cells falls by the size of the group, which is at least 1, and (x, y) is
\* appended to the move history.
C7_MoveRemovesGroup ==
  (LastMoveOk /\ InGrid(last.x, last.y)) =>
    LET g == get_group(last.pre.data, last.x, last.y) IN
      /\ Cardinality(g) >= 1
      /\ Cardinality(NonEmptyCells(last.pre.data))
           - Cardinality(NonEmptyCells(board.data)) = Cardinality(g)
      /\ \A x \in 0 .. (WIDTH - 1) : \A p \in Point \ {"Empty"} :
           Cardinality({y \in 0 .. (HEIGHT - 1) : board.data[get_index(x, y)] = p})
             = Cardinality({y \in 0 .. (HEIGHT - 1) :
                              /\ last.pre.data[get_index(x, y)] = p
                              /\ Coord(x, y) \notin g})
      /\ board.moves = Append(last.pre.moves, Coord(last.x, last.y))

\* A second successful move that cleared a group of two cells or more and
\* left cells behind.
C7_Witness ==
  /\ LastMoveOk /\ InGrid(last.x, last.y)
  /\ Cardinality(get_group(last.pre.data, last.x, last.y)) >= 2
  /\ NonEmptyCells(board.data) # {}
  /\ Len(board.moves) = 2

\* C8: after a successful make_move on a cell of the grid, every column
\* reads, from top to bottom, the colours of its cells that were not
\* cleared, in the order they had; and on a board that was settled every
\* column without a cell of the cleared group is unchanged cell for cell.
C8_NoSidewaysMove ==
  (LastMoveOk /\ InGrid(last.x, last.y)) =>
    /\ \A x \in 0 .. (WIDTH - 1) :
         ColumnColours(board.data, x, {})
           = ColumnColours(last.pre.data, x, LastGroupIdx)
    /\ GravityInvariant(last.pre.data) =>
         \A x \in 0 .. (WIDTH - 1) :
           (\A y \in 0 .. (HEIGHT - 1) : get_index(x, y) \notin LastGroupIdx)
             => \A y \in 0 .. (HEIGHT - 1) :
                  board.data[get_index(x, y)] = last.pre.data[get_index(x, y)]

\* A successful move on a settled board under which a cell fell in one
\* column while another column, without a cell of the group, holds colours.
C8_Witness ==
  /\ LastMoveOk /\ InGrid(last.x, last.y)
  /\ GravityInvariant(last.pre.data)
  /\ \E i \in NonEmptyCells(board.data) :
       board.data[i] # last.pre.data[i]
  /\ \E x \in 0 .. (WIDTH - 1) :
       /\ \A y \in 0 .. (HEIGHT - 1) : get_index(x, y) \notin LastGroupIdx
       /\ \E y \in 0 .. (HEIGHT - 1) : board.data[get_index(x, y)] # "Empty"

\* C9: get_group(x, y) on a non-empty cell is the maximal 4-connected set of
\* cells of its colour that holds (x, y): it holds (x, y), its members are
\* cells of the grid of that colour, each reachable from (x, y) through
\* adjacent members, and no cell of that colour adjacent to a member is
\* left out.
C9_GroupIsComponent ==
  last.op = "get_group" =>
    /\ Coord(last.x, last.y) \in last.group
    /\ last.group \subseteq GridCoords
    /\ \A c \in last.group :
         board.data[IndexOf(c)] = board.data[LastIdx]
    /\ \A c \in GridCoords :
         (board.data[IndexOf(c)] = board.data[LastIdx]
            /\ \E m \in last.group : Adjacent(c, m)) => c \in last.group
    /\ last.group = Component(board.data, last.x, last.y)

\* A group of three cells or more that spans two columns, next to a cell of
\* another colour.
C9_Witness ==
  /\ last.op = "get_group"
  /\ Cardinality(last.group) >= 3
  /\ \E c, d \in last.group : c.x # d.x
  /\ \E c \in GridCoords :
       /\ board.data[IndexOf(c)] \notin {"Empty", board.data[LastIdx]}
       /\ \E m \in last.group : Adjacent(c, m)

\* The groups of the board, each a set of coordinates.
Groups(data) ==
  {Component(data, c.x, c.y) : c \in {d \in GridCoords : data[IndexOf(d)] # "Empty"}}

\* The first cell of a group in the column-major scan order.
FirstOf(G) == CHOOSE c \in G : \A d \in G : IndexOf(c) <= IndexOf(d)

\* C10: get_distinct_moves returns one entry per group: as many entries as
\* groups, each the first cell of its group in scan order with the size of
\* the group, no two of one group.
C10_OneEntryPerGroup ==
  last.op = "get_distinct_moves" =>
    /\ Len(last.dm) = Cardinality(Groups(board.data))
    /\ \A i \in 1 .. Len(last.dm) :
         LET G == Component(board.data, last.dm[i][1].x, last.dm[i][1].y) IN
           /\ last.dm[i][1] = FirstOf(G)
           /\ last.dm[i][2] = Cardinality(G)
    /\ \A i, j \in 1 .. Len(last.dm) :
         i # j => last.dm[j][1] \notin
                    Component(board.data, last.dm[i][1].x, last.dm[i][1].y)

\* The number of groups left on the board by the move on c.
GroupsAfter(data, c) ==
  Cardinality(Groups(make_move([data |-> data, moves |-> <<>>], c.x, c.y).data))

\* C11: get_prioritized_moves returns the distinct moves, one per group,
\* ascending by the number of groups that remain after the move, and among
\* moves that leave as many groups, descending by the size of the group the
\* move clears.
C11_OrderedByGroupsRemaining ==
  last.op = "get_prioritized_moves" =>
    /\ {last.dm[i] : i \in 1 .. Len(last.dm)} =
         {FirstOf(G) : G \in Groups(board.data)}
    /\ Len(last.dm) = Cardinality(Groups(board.data))
    /\ \A i, j \in 1 .. Len(last.dm) :
         i < j =>
           LET gi == GroupsAfter(board.data, last.dm[i])
               gj == GroupsAfter(board.data, last.dm[j])
               si == Cardinality(Component(board.data, last.dm[i].x, last.dm[i].y))
               sj == Cardinality(Component(board.data, last.dm[j].x, last.dm[j].y))
           IN gi < gj \/ (gi = gj /\ si >= sj)

\* The order alone, which fails also on a board whose groups are single
\* cells: the cells of three groups come back in an order that is not
\* ascending by the groups that remain.
C11_OrderOnSingleCells ==
  (last.op = "get_prioritized_moves"
     /\ Len(last.dm) = Cardinality(Groups(board.data))) =>
    \A i, j \in 1 .. Len(last.dm) :
      i < j => GroupsAfter(board.data, last.dm[i]) <= GroupsAfter(board.data, last.dm[j])

\* ------------------------------------------------------------ Board::new claims
\* C12: Board::new fails with the invalid-length error and gives no board
\* when the number of symbols is not 63; given 63 symbols it succeeds with 63
\* cells and an empty move history, cell i being the colour of symbol i, or
\* empty for a symbol outside the symbol table.
C12_ConstructionByLength ==
  (last.op = "new" /\ main = "unused" /\ "input" \in DOMAIN last) =>
    IF Len(last.input) # WIDTH * HEIGHT
    THEN last.res = "InvalidBoardStringLength" /\ board = NoBoard
    ELSE /\ last.res = "Ok"
         /\ DOMAIN board.data = 0 .. (WIDTH * HEIGHT - 1)
         /\ board.moves = <<>>
         /\ \A i \in 0 .. (WIDTH * HEIGHT - 1) :
              board.data[i] = CharToPoint(last.input[i + 1])

\* What holds of C12: the claim, for the strings of ASCII characters.
AsciiConstructionByLength ==
  (last.op = "new" /\ "input" \in DOMAIN last
     /\ \A i \in DOMAIN last.input : len_utf8(last.input[i]) = 1)
    => C12_ConstructionByLength

\* ------------------------------------------------------------ Solver claims
Min(S) == CHOOSE n \in S : \A m \in S : n <= m

RECURSIVE MinMoves(_)
\* The least number of moves that clears the board, by exhaustive search
\* over the moves on every non-empty cell, without pruning.
MinMoves(data) ==
  IF is_solved(data) THEN 0
  ELSE 1 + Min({MinMoves(make_move([data |-> data, moves |-> <<>>], c.x, c.y).data) :
                  c \in {d \in GridCoords : data[IndexOf(d)] # "Empty"}})

RECURSIVE Replay(_, _)
\* The board after the moves of seq, made in order with make_move, and
\* whether each of them succeeded.
Replay(b, seq) ==
  IF seq = <<>> THEN [ok |-> TRUE, data |-> b.data]
  ELSE LET r == make_move(b, Head(seq).x, Head(seq).y)
       IN IF r.res # "Ok" THEN [ok |-> FALSE, data |-> r.data]
          ELSE Replay([data |-> r.data, moves |-> r.moves], Tail(seq))

Done == main = "done"

\* C1: when the board can be cleared in at most 13 moves, the sequence solve
\* returns has the least number of moves that clears the board, under every
\* interleaving of the root-level tasks.
C1_ReturnsMinimum ==
  (Done /\ result.some /\ MinMoves(board.data) <= MAX_DEPTH)
    => Len(result.val) = MinMoves(board.data)

\* solve returned two moves for a board of three coloured cells: a task
\* returned a longer solution, or was pruned.
C1_Witness ==
  /\ Done /\ result.some
  /\ Cardinality(NonEmptyCells(board.data)) = 3
  /\ Len(result.val) = 2
  /\ \E t \in DOMAIN tasks : tasks[t].ret.some /\ Len(tasks[t].ret.val) = 3
  /\ \E t \in DOMAIN tasks : ~tasks[t].ret.some

\* C2: a sequence solve returns clears the board it was given: replayed in
\* order with make_move every move succeeds and the board is solved after
\* the last; and it has at most 13 moves.
C2_ReturnedSequenceClears ==
  (Done /\ result.some) =>
    LET r == Replay(board, result.val) IN
      /\ r.ok
      /\ is_solved(r.data)
      /\ Len(result.val) <= MAX_DEPTH

\* solve returned three moves for a board of three colours.
C2_Witness == Done /\ result.some /\ Len(result.val) = 3

\* C3: solve returns a sequence for every board that can be cleared in at
\* most 13 moves, the board without a coloured cell included.
C3_SolvableReturnsSome ==
  (Done /\ MinMoves(board.data) <= MAX_DEPTH) => result.some

\* What holds of C3: solve returns a sequence for every board that holds a
\* coloured cell and can be cleared in at most 13 moves.
ColouredSolvableReturnsSome ==
  (Done /\ NonEmptyCells(board.data) # {} /\ MinMoves(board.data) <= MAX_DEPTH)
    => result.some

\* ------------------------------------------------------------ best_so_far
\* The task t takes a step of update_best_so_far that installs: its
\* compare_exchange finds the value it loaded.
Installs(t) ==
  /\ t \in DOMAIN tasks /\ tasks[t].pc = "ub_cas" /\ tasks[t].cur = best_so_far
  /\ tasks' # tasks /\ tasks'[t] # tasks[t]

\* C13: best_so_far never grows, under every interleaving of the calls of
\* update_best_so_far: a step leaves it as it was or lowers it, and a
\* compare_exchange that succeeds installs a value strictly below the one it
\* replaces.
C13_BestSoFarNeverGrows ==
  [][/\ best_so_far' <= best_so_far
     /\ \A t \in DOMAIN tasks : Installs(t) => best_so_far' < best_so_far]_vars

\* The value was lowered twice: a task loaded 3, which a task had installed
\* in place of the sentinel, and 2 is installed in its place.
C13_Witness ==
  \E t \in DOMAIN tasks : tasks[t].cur = 3 /\ best_so_far = 2

\* C14: when solve returns a sequence, best_so_far ends as the length of the
\* shortest solution a branch found, which is the length of that sequence.
C14_BoundIsReturnedLength ==
  (Done /\ result.some) =>
    /\ best_so_far = Len(result.val)
    /\ \A v \in Returned : best_so_far <= Len(v)

\* What holds of C14: the same, when the sequence returned has two moves or
\* more, so that the frame of a root-level task called update_best_so_far.
BoundIsReturnedLengthFromTwo ==
  (Done /\ result.some /\ Len(result.val) >= 2) =>
    /\ best_so_far = Len(result.val)
    /\ \A v \in Returned : best_so_far <= Len(v)

\* ------------------------------------------------------------ memo table
\* The task t is in should_process(key, n) with these arguments.
KeyOf(t) == get_memo_key(Top(t).data)
CountOf(t) == Len(Top(t).moves)

\* The step is one of the task t.
StepOf(t) == t \in DOMAIN tasks' /\ tasks'[t] # tasks[t]

\* The step is the task t returning from should_process, under the read lock
\* (false) or under the write lock (true or false).
ReturnsFromShouldProcess(t) ==
  /\ StepOf(t)
  /\ \/ tasks[t].pc = "sp_update"
     \/ tasks[t].pc = "sp_check" /\ tasks'[t].pc # "sp_write"

\* The step is should_process returning true to the task t: the frame goes
\* on to its first child.
ReturnsTrue(t) ==
  /\ StepOf(t)
  /\ tasks[t].pc = "sp_update"
  /\ Len(tasks'[t].stack) = Len(tasks[t].stack) + 1

\* C15: should_process returns true for a fingerprint only with a count
\* strictly below the count it last returned true for (which the table
\* holds), also when two threads both passed the test under the read lock;
\* the count the table holds for a fingerprint never grows; and when
\* should_process(key, n) has returned the table holds a count of at most n
\* for key.
C15_CountsStrictlyDecrease ==
  [][/\ \A t \in DOMAIN tasks :
          /\ ReturnsTrue(t) =>
               /\ \A e \in Lookup(processed, KeyOf(t)) : CountOf(t) < e.count
               /\ Lookup(processed', KeyOf(t)) =
                    {[key |-> KeyOf(t), count |-> CountOf(t)]}
          /\ ReturnsFromShouldProcess(t) =>
               \E e \in Lookup(processed', KeyOf(t)) : e.count <= CountOf(t)
     /\ \A e \in processed :
          \E e2 \in processed' : e2.key = e.key /\ e2.count <= e.count
     /\ (processed' # processed => \E t \in DOMAIN tasks : ReturnsTrue(t))]_vars

\* In the second call a thread holds the write lock for a fingerprint the
\* table holds a higher count for: should_process lowers the count and
\* returns true.
C15_Witness ==
  \E t \in DOMAIN tasks :
    /\ main = "running" /\ tasks[t].pc = "sp_update"
    /\ \E e \in Lookup(processed, KeyOf(t)) : CountOf(t) < e.count

\* Two threads both passed the test under the read lock: one holds the write
\* lock for a fingerprint the other has recorded at the same count since, and
\* should_process returns false to it.
RecheckPrunes ==
  \E t \in DOMAIN tasks :
    /\ main = "running" /\ tasks[t].pc = "sp_update"
    /\ \E e \in Lookup(processed, KeyOf(t)) : e.count <= CountOf(t)

\* ------------------------------------------------------------ depth bound
\* The task t is in should_process for the board of its visit.
InShouldProcess(t) ==
  tasks[t].pc \in {"sp_read", "sp_check", "sp_write", "sp_update"}

\* The frames of the task t that have generated children: all but the top
\* one.
Expanded(t) ==
  {tasks[t].stack[k] : k \in 1 .. (Len(tasks[t].stack) - 1)}

\* No unsolved board of 13 moves or more has got past the tests of its
\* visit; no board of more than 13 moves exists.
DepthBounded ==
  /\ \A t \in DOMAIN tasks :
       /\ InShouldProcess(t) => CountOf(t) < MAX_DEPTH /\ ~is_solved(Top(t).data)
       /\ \A f \in Expanded(t) : Len(f.moves) < MAX_DEPTH
       /\ \A k \in DOMAIN tasks[t].stack : Len(tasks[t].stack[k].moves) <= MAX_DEPTH
  /\ \A e \in processed : e.count < MAX_DEPTH

\* The step is the visit of the task t getting past the tests of
\* solve_recursive, to should_process.
PassesTests(t) ==
  StepOf(t) /\ tasks[t].pc = "enter" /\ tasks'[t].pc = "sp_read"

\* C16: the search records in the memo table and generates the children of
\* an unsolved board only if its move count is below 13 and below the value
\* of best_so_far read at that visit; so no board has more than 13 moves.
C16_NoExpansionBeyondBounds ==
  /\ []DepthBounded
  /\ [][/\ \A t \in DOMAIN tasks :
             PassesTests(t) =>
               CountOf(t) < MAX_DEPTH /\ CountOf(t) < best_so_far
        /\ \A t \in DOMAIN tasks :
             (StepOf(t) /\ (processed' # processed
                             \/ Len(tasks'[t].stack) > Len(tasks[t].stack)))
               => tasks[t].pc = "sp_update"]_vars

\* The search has been 13 moves deep (the table holds a board of 12 moves),
\* has since lowered best_so_far below 13, and visits an unsolved board of
\* fewer than 13 moves which that value prunes.
C16_Witness ==
  /\ \E e \in processed : e.count = MAX_DEPTH - 1
  /\ best_so_far < MAX_DEPTH
  /\ \E t \in DOMAIN tasks :
       /\ tasks[t].pc = "enter"
       /\ ~is_solved(Top(t).data)
       /\ best_so_far <= CountOf(t) /\ CountOf(t) < MAX_DEPTH

\* The search visits an unsolved board of 13 moves.
DepthReached ==
  \E t \in DOMAIN tasks :
    /\ tasks[t].pc = "enter"
    /\ ~is_solved(Top(t).data) /\ CountOf(t) = MAX_DEPTH

\* ------------------------------------------------------------ termination
AllDone == main = "done" /\ \A t \in DOMAIN tasks : tasks[t].pc = "done"

\* C17: solve terminates under every fair interleaving of the root-level
\* tasks: every task finishes its subtree (every compare_exchange loop and
\* every call of should_process in it having returned) and solve returns.
C17_SolveTerminates == <>AllDone

\* NextEnabled is false in the states where solve has returned and in no
\* other; with no deadlock among the other states it is ENABLED <<Next>>_vars.
NextEnabledUnlessDone == NextEnabled <=> main # "done"

\* solve has returned after a run in which the table was written, the bound
\* lowered and a task pruned.
C17_Witness ==
  /\ main = "done"
  /\ processed # {}
  /\ best_so_far < BEST_SENTINEL
  /\ \E t \in DOMAIN tasks : tasks[t].pc = "done" /\ ~tasks[t].ret.some


\* ---------------------------------------------------------- SpecPoison
\* The lock with the poison flag of std::sync::RwLock: a thread that panics
\* while it holds the write guard sets it, and nothing in solver.rs clears
\* it. The tasks are those of Spec; a task gets the field retry when
\* should_process calls itself.

\* The depth of the calls of should_process by itself at which the stack of
\* the thread ends.
StackLimit == 2

Retry(t) == IF "retry" \in DOMAIN tasks[t] THEN tasks[t].retry ELSE 0

Retries(t, pc) ==
  tasks' = [tasks EXCEPT ![t] = [pc |-> pc, stack |-> tasks[t].stack,
                                  ret |-> tasks[t].ret, cur |-> tasks[t].cur,
                                  retry |-> Retry(t) + 1]]

InitPoison ==
  /\ \E s \in AgainStrings :
       LET b == new(s) IN
         /\ b.ok
         /\ board = [data |-> b.data, moves |-> b.moves]
  /\ last = NoOp(board)
  /\ main = "start"
  /\ tasks = <<>>
  /\ result = None
  /\ processed = {}
  /\ best_so_far = BEST_SENTINEL
  /\ lock = [readers |-> {}, writer |-> 0, poisoned |-> FALSE]

\* A thread panics between write() and the return of should_process
\* (solver.rs:139-157): the guard is dropped in the unwinding and the lock
\* is poisoned. rayon keeps the panic for the caller of solve.
PanicHoldingWrite(t) ==
  /\ At(t, "sp_update")
  /\ ~lock.poisoned
  /\ lock' = [lock EXCEPT !.writer = 0, !.poisoned = TRUE]
  /\ tasks' = [tasks EXCEPT ![t].pc = "panicked"]
  /\ UNCHANGED <<boardVars, main, processed, best_so_far, result>>

\* read() on the poisoned lock (solver.rs:127): it returns Err, the if let
\* does not match and should_process goes on to write() with the table
\* unread.
ReadPoisoned(t) ==
  /\ At(t, "sp_read")
  /\ lock.poisoned
  /\ lock.writer = 0
  /\ tasks' = [tasks EXCEPT ![t].pc = "sp_write"]
  /\ UNCHANGED <<boardVars, main, processed, best_so_far, lock, result>>

\* write() on the poisoned lock (solver.rs:139, 158-161): it returns Err
\* with the guard inside, the else branch prints and calls should_process
\* again. The Err is a temporary of the if let: a build of edition 2024
\* drops it, and the guard, before the else branch; a build of an earlier
\* edition keeps it until the if let ends, the lock held during the call.
\* The call at the depth StackLimit runs off the stack and the process is
\* aborted.
WritePoisoned(t) ==
  /\ At(t, "sp_write")
  /\ lock.poisoned
  /\ lock.writer = 0 /\ lock.readers = {}
  /\ \/ /\ Retry(t) < StackLimit
        /\ Retries(t, "sp_read")
        /\ UNCHANGED <<main, lock>>
     \/ /\ Retry(t) < StackLimit
        /\ Retries(t, "sp_read")
        /\ lock' = [lock EXCEPT !.writer = t]
        /\ UNCHANGED main
     \/ /\ Retry(t) >= StackLimit
        /\ Retries(t, "stack_overflow")
        /\ main' = "aborted"
        /\ UNCHANGED lock
  /\ UNCHANGED <<boardVars, processed, best_so_far, result>>

\* read() by the thread that holds the write guard (solver.rs:127 in the
\* call of solver.rs:160): it waits for ever, which is no step, or it
\* panics, as the documentation of RwLock::read allows.
ReadHeldByCaller(t) ==
  /\ At(t, "sp_read")
  /\ lock.writer = t
  /\ lock' = [lock EXCEPT !.writer = 0]
  /\ tasks' = [tasks EXCEPT ![t].pc = "panicked"]
  /\ UNCHANGED <<boardVars, main, processed, best_so_far, result>>

\* The join of the tasks when one of them panicked (solver.rs:39): rayon
\* resumes the panic in the caller of solve.
JoinPanicked ==
  /\ main = "running"
  /\ \A t \in DOMAIN tasks : tasks[t].pc \in {"done", "panicked"}
  /\ \E t \in DOMAIN tasks : tasks[t].pc = "panicked"
  /\ main' = "panicked"
  /\ UNCHANGED <<boardVars, tasks, processed, best_so_far, lock, result>>

NextPoison ==
  \/ Solve
  \/ \E t \in DOMAIN tasks : Enter(t)
  \/ \E t \in DOMAIN tasks : ~lock.poisoned /\ ReadLock(t)
  \/ \E t \in DOMAIN tasks : ReadCheck(t)
  \/ \E t \in DOMAIN tasks : ~lock.poisoned /\ WriteLock(t)
  \/ \E t \in DOMAIN tasks : WriteCheck(t)
  \/ \E t \in DOMAIN tasks : UpdateLoad(t)
  \/ \E t \in DOMAIN tasks : UpdateCas(t)
  \/ Join
  \/ \E t \in DOMAIN tasks : PanicHoldingWrite(t)
  \/ \E t \in DOMAIN tasks : ReadPoisoned(t)
  \/ \E t \in DOMAIN tasks : WritePoisoned(t)
  \/ \E t \in DOMAIN tasks : ReadHeldByCaller(t)
  \/ JoinPanicked

SpecPoison == InitPoison /\ [][NextPoison]_vars

\* C18: a call of should_process that found the lock poisoned at write() and
\* called itself is on its way to a decision: it has not run off the stack,
\* it does not wait for a guard its own thread holds, and it has not
\* panicked.
C18_PoisonedRetryReturns ==
  \A t \in DOMAIN tasks :
    Retry(t) > 0 =>
      /\ tasks[t].pc # "stack_overflow"
      /\ tasks[t].pc # "panicked"
      /\ ~(tasks[t].pc = "sp_read" /\ lock.writer = t)

\* What the code does instead: a call of should_process that called itself
\* is never past write() again, so it returns no decision.
PoisonedRetryNeverReturns ==
  \A t \in DOMAIN tasks :
    Retry(t) > 0 =>
      tasks[t].pc \in {"sp_read", "sp_write", "stack_overflow", "panicked"}

\* The build that drops the guard before the else branch: the call is at
\* write() again after its retry, the lock free and still poisoned.
RetryFindsPoisonAgain ==
  \E t \in DOMAIN tasks :
    /\ Retry(t) > 0
    /\ tasks[t].pc = "sp_write"
    /\ lock.poisoned /\ lock.writer = 0


\* ------------------------------------------------------- the lock
Holds(t) == t \in lock.readers \/ lock.writer = t

Waits(t) == tasks[t].pc \in {"sp_read", "sp_write"} /\ ~TaskEnabled(t)

\* C19: the locking of the memo table cannot deadlock. A thread holds the
\* read lock only while it looks the key up and the write lock only while it
\* tests and installs the count, so it holds neither when it asks for the
\* write lock, when it recurses into a child or when it updates the bound;
\* the write lock excludes the readers; and while a task is at read() or
\* write() some task can take a step.
C19_LockingDeadlockFree ==
  /\ \A t \in DOMAIN tasks :
       /\ t \in lock.readers => tasks[t].pc = "sp_check"
       /\ lock.writer = t => tasks[t].pc = "sp_update"
       /\ tasks[t].pc \in {"sp_write", "enter", "ub_load", "ub_cas", "done"}
            => ~Holds(t)
  /\ lock.writer # 0 => lock.writer \in DOMAIN tasks /\ lock.readers = {}
  /\ lock.readers \subseteq DOMAIN tasks
  /\ (main = "running" /\ \E t \in DOMAIN tasks :
                             tasks[t].pc \in {"sp_read", "sp_write"})
       => \E u \in DOMAIN tasks : TaskEnabled(u)

\* Two tasks wait for the table, one at read() and one at write(), while a
\* third holds the write lock.
C19_Witness ==
  \E t, u, w \in DOMAIN tasks :
    /\ tasks[t].pc = "sp_read" /\ Waits(t)
    /\ tasks[u].pc = "sp_write" /\ Waits(u)
    /\ lock.writer = w

\* A task waits at write() for the readers to leave.
WriterWaitsForReaders ==
  \E u \in DOMAIN tasks :
    tasks[u].pc = "sp_write" /\ lock.readers # {} /\ lock.writer = 0


\* ------------------------------------------------ the second call
\* solve has returned from a second call on the Solver, made with the board
\* of the first call.
SecondCallReturned ==
  main = "done" /\ last.op = "solve" /\ board.data = last.pre.data

\* C20: a second call of solve on the same Solver with the same board
\* returns what the first call returned, up to the choice among sequences
\* of one length: a sequence when the first returned one, and of the same
\* length.
C20_SecondSolveSameLength ==
  SecondCallReturned =>
    /\ result.some = last.res.some
    /\ Len(result.val) = Len(last.res.val)

====
